---------------------------- MODULE Spec2Model ----------------------------
(***************************************************************************)
(* A model of wisco_core_teams_rss.py: the fetch -> filter -> transform -> *)
(* merge -> sort -> serialize pipeline of main, and the pure functions it  *)
(* is built from.                                                          *)
(*                                                                         *)
(* Text is a sequence of one-character strings, so that substring search,  *)
(* case folding, escaping and parsing are computed, not assumed.  The two  *)
(* non-ASCII characters of the source are the tokens "EN_DASH", "EM_DASH"  *)
(* and "BULLET".  A missing, null or empty JSON string is the empty        *)
(* sequence: the source reads every such field through `x.get(k) or ""`.   *)
(* A calendar date is its proleptic ordinal (date.toordinal()).  A         *)
(* datetime is [sec, frac]: whole seconds and a sub-second part, which     *)
(* format_datetime drops.                                                  *)
(***************************************************************************)
EXTENDS Integers, Sequences, FiniteSets, TLC

VARIABLES
    pc,        \* position of main: "scores", "news", "sort", "truncate",
               \* "build", "write", "done", "failed", "aborted"; "fn" in the
               \* specifications of the pure functions
    args,      \* the parsed command line: days, max_items, live_final_only, no_team_news
    today,     \* dt.date.today()
    li,        \* index into LEAGUES of the scoreboard loop
    di,        \* index into date_range(today, args.days) of the inner loop
    fi,        \* index into TEAM_NEWS_FEEDS of the news loop
    items,     \* the accumulating item list of main
    appended,  \* history: the item list as it was when the sort began
    sorted,    \* history: the item list right after the sort
    attempts,  \* history: how many times each unit of work was fetched
    last,      \* history: the unit and outcome of the latest fetch
    rss,       \* the elements build_rss rendered for the items
    call,      \* pure-function specifications: the function and its input
    result     \* pure-function specifications: what the function returned

vars == << pc, args, today, li, di, fi, items, appended, sorted, attempts,
           last, rss, call, result >>

(***************************************************************************)
(* Bounds of the model.                                                    *)
(***************************************************************************)
MaxDays == 1        \* --days ranges over -1 .. MaxDays in main
MaxWindow == 6      \* date_range is applied to spans -2 .. MaxWindow
MaxTime == 2        \* publish times are the seconds 1 .. MaxTime
MaxProduced == 3    \* the fetched documents hold at most this many items in all
MaxLen == 3         \* serialized strings have at most this many characters
MaxCompetitors == 2 \* event_to_item is applied to events of 0 .. MaxCompetitors competitors
MaxLinks == 2       \* pick_game_link is applied to events of 0 .. MaxLinks links

(***************************************************************************)
(* Text helpers.                                                           *)
(***************************************************************************)
UpperCase == <<"A", "B", "C", "D", "E", "F", "G", "H", "I", "J", "K", "L", "M",
               "N", "O", "P", "Q", "R", "S", "T", "U", "V", "W", "X", "Y", "Z">>

LowerCase == <<"a", "b", "c", "d", "e", "f", "g", "h", "i", "j", "k", "l", "m",
               "n", "o", "p", "q", "r", "s", "t", "u", "v", "w", "x", "y", "z">>

\* str.lower(), one character
LowerChar(c) ==
    IF \E i \in 1..Len(UpperCase) : UpperCase[i] = c
    THEN LowerCase[CHOOSE i \in 1..Len(UpperCase) : UpperCase[i] = c]
    ELSE c

\* str.lower()
Lower(s) == [i \in 1..Len(s) |-> LowerChar(s[i])]

\* Python's `sub in s`
Contains(sub, s) ==
    \E i \in 0..(Len(s) - Len(sub)) : SubSeq(s, i + 1, i + Len(sub)) = sub

\* Python's `a or b` on strings: the first truthy (non-empty) operand
Or(a, b) == IF a # <<>> THEN a ELSE b

RECURSIVE Concat(_)
\* "".join(parts)
Concat(parts) ==
    IF parts = <<>> THEN <<>> ELSE Head(parts) \o Concat(Tail(parts))

(***************************************************************************)
(* CONFIG                                                                  *)
(***************************************************************************)
TEAM_MATCHERS ==
    << <<"G", "r", "e", "e", "n", " ", "B", "a", "y", " ", "P", "a", "c", "k", "e", "r", "s">>,
       <<"P", "a", "c", "k", "e", "r", "s">>,
       <<"G", "B">>,
       <<"M", "i", "l", "w", "a", "u", "k", "e", "e", " ", "B", "u", "c", "k", "s">>,
       <<"B", "u", "c", "k", "s">>,
       <<"M", "I", "L">>,
       <<"M", "i", "l", "w", "a", "u", "k", "e", "e", " ", "B", "r", "e", "w", "e", "r", "s">>,
       <<"B", "r", "e", "w", "e", "r", "s">>,
       <<"W", "i", "s", "c", "o", "n", "s", "i", "n", " ", "B", "a", "d", "g", "e", "r", "s">>,
       <<"W", "i", "s", "c", "o", "n", "s", "i", "n">>,
       <<"U", "W">>,
       <<"U", "W", "EN_DASH", "M", "a", "d", "i", "s", "o", "n">>,
       <<"U", "W", "-", "M", "a", "d", "i", "s", "o", "n">> >>

LEAGUES ==
    << [sport |-> "football",   league |-> "nfl",                       label |-> <<"N", "F", "L">>],
       [sport |-> "basketball", league |-> "nba",                       label |-> <<"N", "B", "A">>],
       [sport |-> "baseball",   league |-> "mlb",                       label |-> <<"M", "L", "B">>],
       [sport |-> "football",   league |-> "college-football",          label |-> <<"N", "C", "A", "A", "F">>],
       [sport |-> "basketball", league |-> "mens-college-basketball",   label |-> <<"N", "C", "A", "A", "M">>],
       [sport |-> "basketball", league |-> "womens-college-basketball", label |-> <<"N", "C", "A", "A", "W">>],
       [sport |-> "volleyball", league |-> "womens-college-volleyball", label |-> <<"N", "C", "A", "A", "W", "V">>] >>

TEAM_NEWS_FEEDS ==
    << [url |-> "https://www.packers.com/news/rss",
        title |-> <<"P", "a", "c", "k", "e", "r", "s", " ", "N", "e", "w", "s">>],
       [url |-> "https://www.nba.com/bucks/rss.xml",
        title |-> <<"B", "u", "c", "k", "s", " ", "N", "e", "w", "s">>],
       [url |-> "https://www.mlb.com/brewers/feeds/news/rss.xml",
        title |-> <<"B", "r", "e", "w", "e", "r", "s", " ", "N", "e", "w", "s">>],
       [url |-> "https://uwbadgers.com/rss?path=football",
        title |-> <<"U", "W", " ", "N", "e", "w", "s", " ", "BULLET", " ",
                    "F", "o", "o", "t", "b", "a", "l", "l">>],
       [url |-> "https://uwbadgers.com/rss?path=mbball",
        title |-> <<"U", "W", " ", "N", "e", "w", "s", " ", "BULLET", " ", "M", "e", "n", "'", "s", " ",
                    "B", "a", "s", "k", "e", "t", "b", "a", "l", "l">>],
       [url |-> "https://uwbadgers.com/rss?path=wbball",
        title |-> <<"U", "W", " ", "N", "e", "w", "s", " ", "BULLET", " ", "W", "o", "m", "e", "n", "'", "s", " ",
                    "B", "a", "s", "k", "e", "t", "b", "a", "l", "l">>],
       [url |-> "https://uwbadgers.com/rss?path=wvball",
        title |-> <<"U", "W", " ", "N", "e", "w", "s", " ", "BULLET", " ",
                    "V", "o", "l", "l", "e", "y", "b", "a", "l", "l">>] >>

(***************************************************************************)
(* date_range                                                              *)
(***************************************************************************)
\* max(days, 0)
Span(days) == IF days > 0 THEN days ELSE 0

\* a slip: -(span // 2) for -span // 2, which loses a day of an odd span
OffsetsNegatedHalf(days) ==
    LET lo == -(Span(days) \div 2)
        hi == Span(days) \div 2
    IN  [i \in 1..(hi - lo + 1) |-> lo + i - 1]

\* a slip: range(-span // 2, span // 2), without the + 1
OffsetsOpenEnded(days) ==
    LET lo == (-Span(days)) \div 2
        hi == (Span(days) \div 2) - 1
    IN  [i \in 1..(hi - lo + 1) |-> lo + i - 1]

\* range(-span // 2, span // 2 + 1): Python's unary minus binds tighter than
\* //, and // floors, as \div does
Offsets(days) ==
    LET lo == (-Span(days)) \div 2
        hi == Span(days) \div 2
    IN  [i \in 1..(hi - lo + 1) |-> lo + i - 1]

\* the dates date_range(center, days) yields, in order
date_range(center, days) ==
    [i \in 1..Len(Offsets(days)) |-> center + Offsets(days)[i]]

(***************************************************************************)
(* matches_team                                                            *)
(***************************************************************************)
\* any(key.lower() in n for key in TEAM_MATCHERS), n = (name or "").lower()
matches_team(name) ==
    \E k \in 1..Len(TEAM_MATCHERS) : Contains(Lower(TEAM_MATCHERS[k]), Lower(name))

(***************************************************************************)
(* pick_game_link.  A link is [rel, href]: the set of its relation names   *)
(* and its href (empty when absent).                                       *)
(***************************************************************************)
LinkPreference == <<"boxscore", "summary", "pbp", "recap">>

FallbackUrl ==
    <<"h", "t", "t", "p", "s", ":", "/", "/", "w", "w", "w", ".",
      "e", "s", "p", "n", ".", "c", "o", "m", "/">>

\* the positions (p, i) of the nested loops of lines 88-90 whose test holds
RelHits(links) ==
    { h \in (1..Len(LinkPreference)) \X (1..Len(links)) :
        LinkPreference[h[1]] \in links[h[2]].rel }

\* the first hit in the loops' order: preference first, then list position
FirstRelHit(links) ==
    CHOOSE h \in RelHits(links) :
        \A g \in RelHits(links) :
            h[1] < g[1] \/ (h[1] = g[1] /\ h[2] <= g[2])

\* lines 92-94: the first link with a truthy href
FirstHref(links) ==
    LET withHref == { i \in 1..Len(links) : links[i].href # <<>> }
    IN  IF withHref = {} THEN <<>>
        ELSE links[CHOOSE i \in withHref : \A j \in withHref : i <= j].href

pick_game_link(event) ==
    IF RelHits(event.links) # {}
    THEN event.links[FirstRelHit(event.links)[2]].href   \* l.get("href") or ""
    ELSE IF FirstHref(event.links) # <<>>
    THEN FirstHref(event.links)
    ELSE Or(event.shortLink, Or(event.web, FallbackUrl))

(***************************************************************************)
(* html.escape(s, quote=True)                                              *)
(***************************************************************************)
EscapeChar(c) ==
    CASE c = "&"  -> <<"&", "a", "m", "p", ";">>
      [] c = "<"  -> <<"&", "l", "t", ";">>
      [] c = ">"  -> <<"&", "g", "t", ";">>
      [] c = "\"" -> <<"&", "q", "u", "o", "t", ";">>
      [] c = "'"  -> <<"&", "#", "x", "2", "7", ";">>
      [] OTHER    -> <<c>>

escape(s) == Concat([i \in 1..Len(s) |-> EscapeChar(s[i])])

(***************************************************************************)
(* Datetimes.  An event's `date` and a feed item's `pubDate` are           *)
(* [k, sec, frac]: k = "ok" a well-formed timestamp, k = "none" absent or  *)
(* empty, k = "bad" text (or a non-string) the parser raises on.           *)
(***************************************************************************)
\* email.utils.format_datetime of a UTC datetime: whole seconds only
format_datetime(d) == <<"rfc2822", d.sec>>

\* email.utils.parsedate_to_datetime of what format_datetime wrote
parsedate_to_datetime(s) == [sec |-> s[2], frac |-> 0]

\* lines 136-140 and 163-169: parse, or substitute the current time when the
\* field is absent or the parse raises
PublishTime(field, now) ==
    IF field.k = "ok" THEN [sec |-> field.sec, frac |-> field.frac] ELSE now

(***************************************************************************)
(* event_to_item.  An event is [competitions, links, shortLink, web, id,   *)
(* date]; a competition is [competitors, status]; a competitor is          *)
(* [isObject, homeAway, team, score], isObject false for a JSON value      *)
(* with no .get (a string, a number).  The result is [r |-> "none"]        *)
(* (None), [r |-> "raise"] (an exception leaves the function) or           *)
(* [r |-> "item", item |-> the dict].                                      *)
(***************************************************************************)
JsonNumber == <<"JSON_NUMBER">>     \* a non-zero JSON number where text is expected

EmptyStatus == [state |-> "", shortDetail |-> <<>>, detail |-> <<>>]

\* (event.get("competitions") or [{}])[0]
FirstCompetition(event) ==
    IF event.competitions = <<>>
    THEN [competitors |-> <<>>, status |-> EmptyStatus]
    ELSE event.competitions[1]

\* next((c for c in competitors if c.get("homeAway") == side), default)
BySide(competitors, side, default) ==
    LET hits == { i \in 1..Len(competitors) : competitors[i].homeAway = side }
    IN  IF hits = {} THEN default
        ELSE competitors[CHOOSE i \in hits : \A j \in hits : i <= j]

\* a slip: the fallback chain in the wrong order, `name` first
team_label_NameFirst(c) ==
    Or(c.team.name, Or(c.team.displayName, c.team.shortDisplayName))

team_label(c) ==
    Or(c.team.displayName, Or(c.team.shortDisplayName, c.team.name))

abbr(c) == c.team.abbreviation

StateLabel(state) ==
    IF state = "post" THEN <<"F", "i", "n", "a", "l">>
    ELSE IF state = "in" THEN <<"L", "i", "v", "e">>
    ELSE <<"P", "r", "e", "v", "i", "e", "w">>

\* lines 117-118: the team filter
InvolvesTarget(home, away) ==
    \/ matches_team(team_label(home))
    \/ matches_team(team_label(away))
    \/ matches_team(abbr(home))
    \/ matches_team(abbr(away))

\* lines 128-149, once the event has passed the filters
MakeScoreItem(event, comp, home, away, league_label, now) ==
    LET detail == Or(comp.status.shortDetail, comp.status.detail)
        home_score == Or(home.score, <<"0">>)
        away_score == Or(away.score, <<"0">>)
    IN  [ title |-> Concat(<< league_label, <<" ", "BULLET", " ">>,
                              StateLabel(comp.status.state), <<":", " ">>,
                              team_label(away), <<" ">>, away_score, <<" ", "@", " ">>,
                              team_label(home), <<" ">>, home_score,
                              <<" ", "(">>, detail, <<")">> >>),
          link |-> pick_game_link(event),
          description |-> Concat(<< escape(team_label(away)), <<" ", "v", "s", " ">>,
                                    escape(team_label(home)), <<" ", "EM_DASH", " ">>,
                                    escape(detail) >>),
          pubDate |-> format_datetime(PublishTime(event.date, now)),
          guid |-> event.id \o <<"-">> \o league_label,
          kind |-> "score" ]

event_to_item(event, league_label, live_final_only, now) ==
    LET comp == FirstCompetition(event)
        competitors == comp.competitors
    IN  IF Len(competitors) < 2 THEN [r |-> "none"]
        ELSE IF \E i \in 1..Len(competitors) : ~competitors[i].isObject
        THEN [r |-> "raise"]                    \* c.get: AttributeError
        ELSE LET home == BySide(competitors, "home", competitors[1])
                 away == BySide(competitors, "away", competitors[Len(competitors)])
             IN  IF ~InvolvesTarget(home, away) THEN [r |-> "none"]
                 ELSE IF live_final_only /\ comp.status.state \notin {"in", "post"}
                 THEN [r |-> "none"]
                 ELSE IF event.id = JsonNumber
                 THEN [r |-> "raise"]           \* int + str: TypeError
                 ELSE [r |-> "item",
                       item |-> MakeScoreItem(event, comp, home, away, league_label, now)]

(***************************************************************************)
(* parse_team_rss.  A fetched feed is the sequence of its <item> elements, *)
(* each [title, link, description, pubDate].                               *)
(***************************************************************************)
RECURSIVE LStrip(_)
LStrip(s) == IF s # <<>> /\ Head(s) = " " THEN LStrip(Tail(s)) ELSE s

RECURSIVE RStrip(_)
RStrip(s) == IF s # <<>> /\ s[Len(s)] = " " THEN RStrip(SubSeq(s, 1, Len(s) - 1)) ELSE s

\* str.strip(), for the blank
Strip(s) == RStrip(LStrip(s))

\* str(hash(text)): process-local and lossy; here the length, modulo ten
HashText(text) == << <<"0", "1", "2", "3", "4", "5", "6", "7", "8", "9">>[(Len(text) % 10) + 1] >>

\* the raw text of a feed's <pubDate>
RawPubDate(field) ==
    IF field.k = "none" THEN <<>>
    ELSE IF field.k = "bad" THEN <<"?">>
    ELSE <<"r", "f", "c">>

\* lines 160-178: one item of the feed
MakeNewsItem(feed_title, entry, now) ==
    LET title == Strip(entry.title)
        link == Strip(entry.link)
    IN  [ title |-> feed_title \o <<":", " ">> \o title,
          link |-> link,
          description |-> Strip(entry.description),
          pubDate |-> format_datetime(PublishTime(entry.pubDate, now)),
          guid |-> <<"n", "e", "w", "s", "-">>
                     \o HashText(feed_title \o title \o link \o RawPubDate(entry.pubDate)),
          kind |-> "news" ]

\* lines 158-181 for a feed that was fetched and parsed; the loop breaks once
\* max_items items are collected
parse_team_rss(feed_title, feed, max_items, now) ==
    LET n == IF Len(feed) = 0 THEN 0
             ELSE IF max_items < 1 THEN 1
             ELSE IF Len(feed) < max_items THEN Len(feed)
             ELSE max_items
    IN  [i \in 1..n |-> MakeNewsItem(feed_title, feed[i], now)]

(***************************************************************************)
(* build_rss.  The document is kept as its elements: for each the          *)
(* characters written between its start and end tag.                       *)
(***************************************************************************)
CDataOpen == <<"<", "!", "[", "C", "D", "A", "T", "A", "[">>
CDataClose == <<"]", "]", ">">>

ChannelTitle ==
    <<"W", "i", "s", "c", "o", "n", "s", "i", "n", " ", "S", "p", "o", "r", "t", "s",
      " ", "(", "C", "o", "r", "e", " ", "T", "e", "a", "m", "s", ")">>

ChannelDescription ==
    <<"P", "a", "c", "k", "e", "r", "s", ",", " ", "B", "u", "c", "k", "s", ",", " ",
      "B", "r", "e", "w", "e", "r", "s", " ", "s", "c", "o", "r", "e", "s", " ", "+",
      " ", "U", "W", " ", "B", "a", "d", "g", "e", "r", "s", " ", "s", "c", "o", "r",
      "e", "s", " ", "&", " ", "n", "e", "w", "s", ".">>

\* lines 195-201
RenderItem(it) ==
    [ title |-> escape(it.title),
      link |-> escape(it.link),
      guid |-> escape(it.guid),
      pubDate |-> it.pubDate,
      description |-> CDataOpen \o it.description \o CDataClose ]

build_rss(its, now) ==
    [ title |-> escape(ChannelTitle),
      link |-> escape(FallbackUrl),
      description |-> escape(ChannelDescription),
      lastBuildDate |-> format_datetime(now),
      items |-> [i \in 1..Len(its) |-> RenderItem(its[i])] ]

(***************************************************************************)
(* The sort and the cap of main.                                           *)
(***************************************************************************)
\* parse_rfc2822: every pubDate was written by format_datetime, so the parse
\* succeeds and the `except` branch of line 246 is never taken
parse_rfc2822(s) == parsedate_to_datetime(s)

SortKey(it) == parse_rfc2822(it.pubDate)

\* datetime comparison
KeyLess(a, b) == a.sec < b.sec \/ (a.sec = b.sec /\ a.frac < b.frac)

RECURSIVE InsertBeforeTies(_, _)
\* a slip: x goes in front of the elements that tie with it (as an ascending
\* sort followed by a reversal would place it)
InsertBeforeTies(s, x) ==
    IF s = <<>> THEN <<x>>
    ELSE IF ~KeyLess(SortKey(x), SortKey(Head(s))) THEN <<x>> \o s
    ELSE <<Head(s)>> \o InsertBeforeTies(Tail(s), x)

RECURSIVE InsertDescending(_, _)
\* x goes behind every element whose key is not smaller than its own
InsertDescending(s, x) ==
    IF s = <<>> THEN <<x>>
    ELSE IF KeyLess(SortKey(Head(s)), SortKey(x)) THEN <<x>> \o s
    ELSE <<Head(s)>> \o InsertDescending(Tail(s), x)

\* a slip: the sort left out
SortItemsOmitted(l) == l

RECURSIVE SortItems(_)
\* list.sort(key=..., reverse=True): descending, and stable
SortItems(l) ==
    IF l = <<>> THEN <<>>
    ELSE InsertDescending(SortItems(SubSeq(l, 1, Len(l) - 1)), l[Len(l)])

\* a slip: `>= 0` for `> 0`, so that max_items = 0 empties the feed
TruncateAtZero(l, max_items) ==
    IF max_items >= 0
    THEN SubSeq(l, 1, IF max_items < Len(l) THEN max_items ELSE Len(l))
    ELSE l

\* lines 250-251: items[:max_items] when max_items > 0
Truncate(l, max_items) ==
    IF max_items > 0
    THEN SubSeq(l, 1, IF max_items < Len(l) THEN max_items ELSE Len(l))
    ELSE l

(***************************************************************************)
(* Specifications of the pure functions: Init draws the call, the one      *)
(* action applies the function.  The variables of main stay idle.          *)
(***************************************************************************)
MainIdle ==
    /\ pc = "fn"
    /\ args = [days |-> 0, max_items |-> 0, live_final_only |-> FALSE, no_team_news |-> FALSE]
    /\ today = 0
    /\ li = 0 /\ di = 0 /\ fi = 0
    /\ items = <<>> /\ appended = <<>> /\ sorted = <<>>
    /\ attempts = <<>>
    /\ last = "none"
    /\ rss = <<>>

MainUnchanged ==
    UNCHANGED << args, today, li, di, fi, items, appended, sorted, attempts, last, rss >>

\* sequences over S of length 0 .. n
SeqsUpTo(S, n) == UNION { [1..k -> S] : k \in 0..n }

(* ----------------------------- date_range ----------------------------- *)
Centers == { 739000 + i : i \in 0..9 }

InitDates ==
    /\ MainIdle
    /\ call \in [f : {"date_range"}, center : Centers, days : (-2)..MaxWindow]
    /\ result = <<>>

CallDateRange ==
    /\ pc = "fn" /\ call.f = "date_range"
    /\ result' = date_range(call.center, call.days)
    /\ pc' = "returned"
    /\ UNCHANGED call /\ MainUnchanged

NextDates == CallDateRange

SpecDates == InitDates /\ [][NextDates]_vars

(* ---------------------------- sample inputs --------------------------- *)
NoTeam == [displayName |-> <<>>, shortDisplayName |-> <<>>, name |-> <<>>, abbreviation |-> <<>>]

Bears ==
    [NoTeam EXCEPT !.displayName = <<"C", "h", "i", "c", "a", "g", "o", " ", "B", "e", "a", "r", "s">>,
                   !.abbreviation = <<"C", "H", "I">>]

PackersLower ==
    [NoTeam EXCEPT !.displayName = <<"g", "r", "e", "e", "n", " ", "b", "a", "y", " ",
                                     "p", "a", "c", "k", "e", "r", "s">>]

BucksShortOnly == [NoTeam EXCEPT !.shortDisplayName = <<"B", "u", "c", "k", "s">>]

LionsNamedBrewers ==
    [NoTeam EXCEPT !.displayName = <<"D", "e", "t", "r", "o", "i", "t", " ", "L", "i", "o", "n", "s">>,
                   !.name = <<"B", "r", "e", "w", "e", "r", "s">>,
                   !.abbreviation = <<"D", "E", "T">>]

AbbrOnly == [NoTeam EXCEPT !.abbreviation = <<"g", "b">>]

SampleTeams == { Bears, PackersLower, BucksShortOnly, LionsNamedBrewers, AbbrOnly }

SampleScore(team) ==
    IF team = Bears THEN <<"2", "0">>
    ELSE IF team = PackersLower THEN <<"2", "7">>
    ELSE <<>>

SampleCompetitors ==
    { [isObject |-> TRUE, homeAway |-> side, team |-> t, score |-> SampleScore(t)] :
        side \in {"home", "away", ""}, t \in SampleTeams }
    \cup { [isObject |-> FALSE, homeAway |-> "", team |-> NoTeam, score |-> <<>>] }

FinalDetail == <<"F", "i", "n", "a", "l">>

MkStatus(state) ==
    [state |-> state, shortDetail |-> IF state = "post" THEN FinalDetail ELSE <<>>, detail |-> <<>>]

NoDate == [k |-> "none", sec |-> 0, frac |-> 0]
BadDate == [k |-> "bad", sec |-> 0, frac |-> 0]
IsoDate(sec, frac) == [k |-> "ok", sec |-> sec, frac |-> frac]

EventId == <<"4", "0", "1">>

MkEvent(competitions, links, shortLink, web, id, date) ==
    [competitions |-> competitions, links |-> links, shortLink |-> shortLink,
     web |-> web, id |-> id, date |-> date]

(* ---------------------------- event_to_item --------------------------- *)
EventInputs ==
    { MkEvent(<<[competitors |-> cs, status |-> MkStatus(st)]>>, <<>>, <<>>, <<>>, EventId, IsoDate(1, 0)) :
        cs \in SeqsUpTo(SampleCompetitors, MaxCompetitors), st \in {"pre", "in", "post"} }
    \cup { MkEvent(<<>>, <<>>, <<>>, <<>>, EventId, IsoDate(1, 0)) }

InitEvent ==
    /\ MainIdle
    /\ call \in [f : {"event_to_item"}, event : EventInputs, league_label : {LEAGUES[1].label},
                 live_final_only : BOOLEAN, now : {[sec |-> 2, frac |-> 1]}]
    /\ result = <<>>

CallEventToItem ==
    /\ pc = "fn" /\ call.f = "event_to_item"
    /\ result' = event_to_item(call.event, call.league_label, call.live_final_only, call.now)
    /\ pc' = "returned"
    /\ UNCHANGED call /\ MainUnchanged

NextEvent == CallEventToItem

SpecEvent == InitEvent /\ [][NextEvent]_vars

(* --------------------------- pick_game_link --------------------------- *)
UrlBox == <<"h", "t", "t", "p", ":", "/", "/", "e", "/", "b", "o", "x">>
UrlAny == <<"h", "t", "t", "p", ":", "/", "/", "e", "/", "a", "n", "y">>
UrlShort == <<"h", "t", "t", "p", ":", "/", "/", "e", "/", "s", "h", "o", "r", "t">>
UrlWeb == <<"h", "t", "t", "p", ":", "/", "/", "e", "/", "w", "e", "b">>

SampleLinks ==
    [rel : { {}, {"boxscore"}, {"summary", "desktop"}, {"recap", "pbp"}, {"tickets"} },
     href : { <<>>, UrlBox, UrlAny }]

LinkInputs ==
    { MkEvent(<<>>, ls, sl, w, EventId, NoDate) :
        ls \in SeqsUpTo(SampleLinks, MaxLinks), sl \in {<<>>, UrlShort}, w \in {<<>>, UrlWeb} }

InitLink ==
    /\ MainIdle
    /\ call \in [f : {"pick_game_link"}, event : LinkInputs]
    /\ result = <<>>

CallPickGameLink ==
    /\ pc = "fn" /\ call.f = "pick_game_link"
    /\ result' = pick_game_link(call.event)
    /\ pc' = "returned"
    /\ UNCHANGED call /\ MainUnchanged

NextLink == CallPickGameLink

SpecLink == InitLink /\ [][NextLink]_vars

(* ------------------------------ build_rss ----------------------------- *)
RssAlphabet == {"a", "&", "<", ">", "]", "'", "\""}

RssStrings == SeqsUpTo(RssAlphabet, MaxLen)

PlainItem ==
    [title |-> <<"a">>, link |-> <<"a">>, description |-> <<"a">>,
     pubDate |-> format_datetime([sec |-> 1, frac |-> 0]), guid |-> <<"a">>, kind |-> "news"]

\* an item whose one text field is s
ItemsWith(strings) ==
    { [PlainItem EXCEPT !.title = x] : x \in strings }
    \cup { [PlainItem EXCEPT !.link = x] : x \in strings }
    \cup { [PlainItem EXCEPT !.guid = x] : x \in strings }
    \cup { [PlainItem EXCEPT !.description = x] : x \in strings }

RssInputs ==
    { <<>> }
    \cup { <<it>> : it \in ItemsWith(RssStrings) }
    \cup { <<it, PlainItem>> : it \in ItemsWith(SeqsUpTo(RssAlphabet, 1)) }
    \cup { <<PlainItem, it>> : it \in ItemsWith(SeqsUpTo(RssAlphabet, 1)) }

InitRss ==
    /\ MainIdle
    /\ call \in [f : {"build_rss"}, items : RssInputs, now : {[sec |-> 2, frac |-> 1]}]
    /\ result = <<>>

CallBuildRss ==
    /\ pc = "fn" /\ call.f = "build_rss"
    /\ result' = build_rss(call.items, call.now)
    /\ pc' = "returned"
    /\ UNCHANGED call /\ MainUnchanged

NextRss == CallBuildRss

SpecRss == InitRss /\ [][NextRss]_vars

(* ------------------------- the sort and the cap ----------------------- *)
MergeItem(name, kind, sec) ==
    [title |-> <<name>>, link |-> <<>>, description |-> <<>>,
     pubDate |-> format_datetime([sec |-> sec, frac |-> 0]), guid |-> <<name>>, kind |-> kind]

MergeItems ==
    { MergeItem("a", "score", t) : t \in 1..MaxTime }
    \cup { MergeItem("b", "news", t) : t \in 1..MaxTime }

\* l in every order
Reorderings(l) ==
    { [i \in 1..Len(l) |-> l[p[i]]] : p \in Permutations(1..Len(l)) }

\* two runs that produced the same items, appended in different orders
InitMerge ==
    /\ MainIdle
    /\ \E l \in SeqsUpTo(MergeItems, MaxProduced) :
          call \in [f : {"sort_and_cap"}, first : {l}, second : Reorderings(l), max_items : 0..2]
    /\ result = <<>>

CallSortAndCap ==
    /\ pc = "fn" /\ call.f = "sort_and_cap"
    /\ result' = << Truncate(SortItems(call.first), call.max_items),
                    Truncate(SortItems(call.second), call.max_items) >>
    /\ pc' = "returned"
    /\ UNCHANGED call /\ MainUnchanged

NextMerge == CallSortAndCap

SpecMerge == InitMerge /\ [][NextMerge]_vars

(***************************************************************************)
(* main.  What the network answers is the model's input: each fetch either *)
(* fails (network, timeout, decode) or returns one of the sample           *)
(* documents below.  Only the leagues of ActiveLeagues have games in the   *)
(* window and only the feeds of ActiveFeeds carry entries; every other     *)
(* fetch fails, returns a document without events, or a malformed one.     *)
(***************************************************************************)
Packers ==
    [NoTeam EXCEPT !.displayName = <<"G", "r", "e", "e", "n", " ", "B", "a", "y", " ",
                                     "P", "a", "c", "k", "e", "r", "s">>,
                   !.abbreviation = <<"G", "B">>]

Competitor(side, team, score) ==
    [isObject |-> TRUE, homeAway |-> side, team |-> team, score |-> score]

BoxscoreLink == [rel |-> {"boxscore"}, href |-> UrlBox]

\* Packers 27 at Bears 20
Game(state, id, date) ==
    MkEvent(<< [competitors |-> << Competitor("home", Bears, <<"2", "0">>),
                                   Competitor("away", Packers, <<"2", "7">>) >>,
                status |-> MkStatus(state)] >>,
            <<BoxscoreLink>>, <<>>, <<>>, id, date)

\* a game of two teams that are not on the allow-list
OtherGame ==
    MkEvent(<< [competitors |-> << Competitor("home", Bears, <<>>),
                                   Competitor("away", LionsNamedBrewers, <<>>) >>,
                status |-> MkStatus("pre")] >>,
            <<>>, <<>>, <<>>, EventId, NoDate)

Nows == { [sec |-> t, frac |-> 1] : t \in 1..MaxTime }

EventsDoc(events) == [kind |-> "events", events |-> events]

\* documents any scoreboard may answer with
QuietScoreboards ==
    { EventsDoc(<<>>), EventsDoc(<<OtherGame>>),
      [kind |-> "events_null", events |-> <<>>],            \* {"events": null}
      [kind |-> "not_an_object", events |-> <<>>] }         \* e.g. a JSON list

\* documents a scoreboard with games answers with
BusyScoreboards ==
    { EventsDoc(<<Game("post", EventId, IsoDate(t, 0))>>) : t \in 1..MaxTime }
    \cup { EventsDoc(<<Game("post", EventId, NoDate)>>),
           EventsDoc(<<Game("post", EventId, BadDate)>>),
           EventsDoc(<<Game("pre", EventId, IsoDate(1, 0)), Game("post", EventId, IsoDate(1, 0))>>),
           EventsDoc(<<Game("post", EventId, IsoDate(1, 0)), Game("post", JsonNumber, IsoDate(1, 0))>>) }

ActiveLeagues == {1}
ActiveFeeds == {1}

ScoreboardsOf(l) ==
    IF l \in ActiveLeagues THEN QuietScoreboards \cup BusyScoreboards ELSE QuietScoreboards

Headline == <<" ", "W", "i", "n", " ">>

Entry(pubDate) ==
    [title |-> Headline, link |-> UrlAny, description |-> <<"a", "&", "b">>, pubDate |-> pubDate]

RfcDate(sec) == [k |-> "ok", sec |-> sec, frac |-> 0]

QuietFeeds == { <<>> }

BusyFeeds ==
    { <<Entry(RfcDate(t))>> : t \in 1..MaxTime }
    \cup { <<Entry(NoDate)>>, <<Entry(BadDate), Entry(RfcDate(1))>> }

FeedsOf(k) == IF k \in ActiveFeeds THEN QuietFeeds \cup BusyFeeds ELSE QuietFeeds

\* lines 229-232 on a decoded document: what is appended to items, and
\* whether an exception leaves the loop (data.get on a non-object, iterating
\* null, or event_to_item raising)
ProcessScoreboard(doc, league_label, live_final_only, now) ==
    IF doc.kind # "events" THEN [raised |-> TRUE, cause |-> doc.kind, items |-> <<>>]
    ELSE LET rs == [i \in 1..Len(doc.events) |->
                        event_to_item(doc.events[i], league_label, live_final_only, now)]
             raising == { i \in DOMAIN rs : rs[i].r = "raise" }
             stop == IF raising = {} THEN Len(rs) + 1
                     ELSE CHOOSE i \in raising : \A j \in raising : i <= j
             made == SelectSeq(SubSeq(rs, 1, stop - 1), LAMBDA r : r.r = "item")
         IN  [raised |-> raising # {}, cause |-> "malformed_event",
              items |-> [i \in 1..Len(made) |-> made[i].item]]

\* ProcessScoreboard and parse_team_rss on the sample documents, tabulated
ScoreboardTable ==
    [l \in DOMAIN LEAGUES, doc \in QuietScoreboards \cup BusyScoreboards,
     f \in BOOLEAN, now \in Nows |->
        ProcessScoreboard(doc, LEAGUES[l].label, f, now)]

PerFeedCap == 20

FeedTable ==
    [k \in DOMAIN TEAM_NEWS_FEEDS, feed \in QuietFeeds \cup BusyFeeds, now \in Nows |->
        parse_team_rss(TEAM_NEWS_FEEDS[k].title, feed, PerFeedCap, now)]

Window == date_range(today, args.days)

NoAttempts(window) ==
    [scores |-> [u \in (DOMAIN LEAGUES) \X { window[i] : i \in DOMAIN window } |-> 0],
     news |-> [k \in DOMAIN TEAM_NEWS_FEEDS |-> 0]]

ArgSets ==
    [days : (-1)..MaxDays, max_items : (-1)..MaxProduced,
     live_final_only : BOOLEAN, no_team_news : BOOLEAN]

Init ==
    /\ pc = "scores"
    /\ args \in ArgSets
    /\ today = 739000
    /\ li = 1 /\ di = 1 /\ fi = 1
    /\ items = <<>> /\ appended = <<>> /\ sorted = <<>>
    /\ attempts = NoAttempts(date_range(today, args.days))
    /\ last = "none"
    /\ rss = <<>>
    /\ call = [f |-> "main"]
    /\ result = <<>>

\* the loop headers of lines 219-220 and the test of line 235
NextScoreUnit ==
    IF di < Len(Window) THEN /\ di' = di + 1 /\ UNCHANGED << li, pc >>
    ELSE IF li < Len(LEAGUES) THEN /\ li' = li + 1 /\ di' = 1 /\ UNCHANGED pc
    ELSE /\ li' = li + 1 /\ di' = 1
         /\ pc' = IF args.no_team_news THEN "sort" ELSE "news"

CountScoreAttempt ==
    attempts' = [attempts EXCEPT !.scores[<<li, Window[di]>>] = @ + 1]

\* a slip: no try/except around fetch_json, so the failure leaves main
ScoreFetchFailsUncaught ==
    /\ pc = "scores"
    /\ CountScoreAttempt
    /\ last' = "failed"
    /\ pc' = "aborted"
    /\ UNCHANGED << args, today, li, di, fi, items, appended, sorted, rss, call, result >>

\* lines 223-227: fetch_json raises; warn and continue
ScoreFetchFails ==
    /\ pc = "scores"
    /\ CountScoreAttempt
    /\ last' = "failed"
    /\ NextScoreUnit
    /\ UNCHANGED << args, today, fi, items, appended, sorted, rss, call, result >>

\* lines 224 and 229-232: fetch_json returns a document
ScoreFetchReturns ==
    /\ pc = "scores"
    /\ \E doc \in ScoreboardsOf(li), now \in Nows :
          LET got == ScoreboardTable[li, doc, args.live_final_only, now]
          IN  /\ Len(items) + Len(got.items) <= MaxProduced
              /\ CountScoreAttempt
              /\ IF got.raised
                 THEN /\ pc' = "aborted"
                      /\ last' = got.cause
                      /\ UNCHANGED << li, di >>
                 ELSE /\ last' = "returned"
                      /\ NextScoreUnit
              /\ items' = items \o got.items
    /\ UNCHANGED << args, today, fi, appended, sorted, rss, call, result >>

NextFeed ==
    IF fi < Len(TEAM_NEWS_FEEDS) THEN /\ fi' = fi + 1 /\ UNCHANGED pc
    ELSE /\ fi' = fi + 1 /\ pc' = "sort"

CountNewsAttempt == attempts' = [attempts EXCEPT !.news[fi] = @ + 1]

\* lines 152-156: the fetch or the XML parse raises; parse_team_rss returns []
NewsFeedFails ==
    /\ pc = "news"
    /\ CountNewsAttempt
    /\ last' = "failed"
    /\ NextFeed
    /\ UNCHANGED << args, today, li, di, items, appended, sorted, rss, call, result >>

\* lines 236-238 and 158-181
NewsFeedReturns ==
    /\ pc = "news"
    /\ \E feed \in FeedsOf(fi), now \in Nows :
          LET got == FeedTable[fi, feed, now]
          IN  /\ Len(items) + Len(got) <= MaxProduced
              /\ items' = items \o got
    /\ CountNewsAttempt
    /\ last' = "returned"
    /\ NextFeed
    /\ UNCHANGED << args, today, li, di, appended, sorted, rss, call, result >>

\* line 249
Sort ==
    /\ pc = "sort"
    /\ appended' = items
    /\ items' = SortItems(items)
    /\ sorted' = items'
    /\ pc' = "truncate"
    /\ UNCHANGED << args, today, li, di, fi, attempts, last, rss, call, result >>

\* lines 250-251
Cap ==
    /\ pc = "truncate"
    /\ items' = Truncate(items, args.max_items)
    /\ pc' = "build"
    /\ UNCHANGED << args, today, li, di, fi, appended, sorted, attempts, last, rss, call, result >>

\* the clock build_rss reads for lastBuildDate, which no later step reads
BuildTime == [sec |-> MaxTime, frac |-> 1]

\* line 253
Build ==
    /\ pc = "build"
    /\ rss' = build_rss(items, BuildTime)
    /\ pc' = "write"
    /\ UNCHANGED << args, today, li, di, fi, items, appended, sorted, attempts, last, call, result >>

\* lines 255-258: the file is written, or open/write raises and the run fails
Write ==
    /\ pc = "write"
    /\ pc' \in {"done", "failed"}
    /\ UNCHANGED << args, today, li, di, fi, items, appended, sorted, attempts, last, rss, call, result >>

Next ==
    \/ ScoreFetchFails
    \/ ScoreFetchReturns
    \/ NewsFeedFails
    \/ NewsFeedReturns
    \/ Sort
    \/ Cap
    \/ Build
    \/ Write

Spec == Init /\ [][Next]_vars

(***************************************************************************)
(* Claims about main (Spec).                                               *)
(***************************************************************************)
PastFetching == pc \in {"sort", "truncate", "build", "write", "done", "failed"}
PastSort == pc \in {"truncate", "build", "write", "done", "failed"}
PastCap == pc \in {"build", "write", "done", "failed"}

ScoreUnits == DOMAIN attempts.scores
NewsUnits == DOMAIN attempts.news

\* a step that fetched a unit of work, and found the fetch to fail
FailedFetchStep == attempts' # attempts /\ last' = "failed"

\* C1: a fetch failure on a (league, date) scoreboard request or on a news feed
\* never stops the run.  No unit is ever fetched twice; a step whose fetch
\* fails adds no item and leaves the run at the next unit or at the sort; while
\* units remain the next fetch can always be made; and once the run is past the
\* fetches, each of the 7 x (number of window dates) scoreboard requests has
\* been made exactly once, and each of the 7 news feeds exactly once unless
\* team news is disabled (then never), on the way to the write of the file.
C1_FetchFailureNeverStopsRun ==
    /\ [](/\ \A u \in ScoreUnits : attempts.scores[u] <= 1
          /\ \A k \in NewsUnits : attempts.news[k] <= 1)
    /\ [][FailedFetchStep =>
            /\ items' = items
            /\ pc' \in {"scores", "news", "sort"}
            /\ pc' = pc => <<li', di', fi'>> # <<li, di, fi>>]_vars
    /\ [](pc \in {"scores", "news"} =>
            ENABLED (ScoreFetchFails \/ ScoreFetchReturns \/ NewsFeedFails \/ NewsFeedReturns))
    /\ [](PastFetching =>
            /\ Cardinality(ScoreUnits) = 7 * Len(Window)
            /\ Cardinality(NewsUnits) = 7
            /\ \A u \in ScoreUnits : attempts.scores[u] = 1
            /\ \A k \in NewsUnits :
                  attempts.news[k] = IF args.no_team_news THEN 0 ELSE 1)

\* C1 witness: the write is reached by a run whose latest fetch, a news feed's,
\* failed, over a window of two dates, with no item produced
C1_Witness ==
    /\ pc = "write" /\ last = "failed" /\ items = <<>>
    /\ ~args.no_team_news /\ Len(Window) = 2
    /\ \A k \in NewsUnits : attempts.news[k] = 1

\* C2: no error other than a failure to write the output file aborts a run of
\* main; a fetched and decoded but malformed scoreboard document is skipped
\* and the run goes on to the remaining units and to the write.
C2_OnlyWriteFailureAborts == pc # "aborted"

\* the items of l published at second t, in l's order
PublishedAt(l, t) == SelectSeq(l, LAMBDA it : SortKey(it).sec = t)

PublishSeconds(l) == { SortKey(l[i]).sec : i \in DOMAIN l }

\* C3: the list handed to the serializer is ordered by publish time descending,
\* and the sort is stable: items of one publish time keep the order in which
\* they were appended, so among ties every score item precedes every news item.
C3_SortedDescendingAndStable ==
    PastSort =>
        /\ Len(sorted) = Len(appended)
        /\ \A i \in 1..(Len(sorted) - 1) :
              SortKey(sorted[i]).sec >= SortKey(sorted[i + 1]).sec
        /\ \A t \in PublishSeconds(appended) \cup PublishSeconds(sorted) :
              PublishedAt(sorted, t) = PublishedAt(appended, t)
        /\ \A i, j \in DOMAIN sorted :
              (i < j /\ SortKey(sorted[i]).sec = SortKey(sorted[j]).sec)
                  => ~(sorted[i].kind = "news" /\ sorted[j].kind = "score")

\* C3 witness: the sort moved a later item to the front of two that tie, a
\* score item and a news item
C3_Witness ==
    /\ pc = "truncate" /\ Len(sorted) = 3 /\ sorted # appended
    /\ SortKey(sorted[1]).sec > SortKey(sorted[2]).sec
    /\ SortKey(sorted[2]).sec = SortKey(sorted[3]).sec
    /\ sorted[2].kind = "score" /\ sorted[3].kind = "news"

\* C4: with max_items > 0 and n items produced the output holds exactly
\* min(n, max_items) items, the first of the sorted list, and no item left out
\* has a publish time strictly later than an item kept; with max_items <= 0
\* all n items are output.
C4_TruncationKeepsMostRecent ==
    PastCap =>
        LET n == Len(sorted)
            kept == Len(items)
        IN  /\ kept = IF args.max_items > 0
                      THEN (IF n < args.max_items THEN n ELSE args.max_items)
                      ELSE n
            /\ \A i \in 1..kept : items[i] = sorted[i]
            /\ \A i \in 1..kept : \A j \in (kept + 1)..n :
                  SortKey(sorted[j]).sec <= SortKey(items[i]).sec

\* C4 witness: three items produced, of which max_items = 2 are kept and the
\* earliest is left out
C4_Witness ==
    /\ pc = "build" /\ args.max_items = 2 /\ Len(sorted) = 3 /\ Len(items) = 2
    /\ SortKey(sorted[3]).sec < SortKey(items[2]).sec

(***************************************************************************)
(* Claims about date_range (SpecDates).                                    *)
(***************************************************************************)
Returned(f) == pc = "returned" /\ call.f = f

\* how many of the dates r fall strictly before / after the date c
Before(r, c) == Cardinality({ i \in DOMAIN r : r[i] < c })
After(r, c) == Cardinality({ i \in DOMAIN r : r[i] > c })

\* C6: for every window size d >= 0 and every center date, date_range(center, d)
\* yields exactly d+1 distinct consecutive calendar dates in ascending order, the
\* center among them, from offset floor(-d/2) to offset floor(d/2); a negative d
\* is treated as 0 and yields only the center date.
C6_DateRangeYieldsDPlusOneDates ==
    Returned("date_range") =>
        LET c == call.center
            d == IF call.days >= 0 THEN call.days ELSE 0
            r == result
        IN  /\ Len(r) = d + 1
            /\ Cardinality({ r[i] : i \in DOMAIN r }) = d + 1
            /\ \A i \in 1..(Len(r) - 1) : r[i + 1] = r[i] + 1
            /\ \E i \in DOMAIN r : r[i] = c
            /\ r[1] = c - ((d + 1) \div 2)
            /\ r[Len(r)] = c + (d \div 2)
            /\ (call.days < 0 => r = <<c>>)

\* C6 witness: an odd and an even window were both generated, here the odd one
C6_Witness ==
    Returned("date_range") /\ call.days = 5 /\ Len(result) = 6 /\ result[1] = call.center - 3

\* C7 as stated: for every even window size, the number of dates before the
\* center date differs by one from the number of dates after it.
C7_EvenWindowAsymmetric ==
    (Returned("date_range") /\ call.days >= 0 /\ call.days % 2 = 0) =>
        \/ Before(result, call.center) = After(result, call.center) + 1
        \/ After(result, call.center) = Before(result, call.center) + 1

\* C7 as amended: it is every odd window size that is asymmetric, with exactly
\* one more date before the center date than after it; every even window size
\* (and every negative one, treated as 0) has as many dates before as after.
C7_OddWindowAsymmetric ==
    Returned("date_range") =>
        IF call.days >= 1 /\ call.days % 2 = 1
        THEN Before(result, call.center) = After(result, call.center) + 1
        ELSE Before(result, call.center) = After(result, call.center)

\* C7 witness: an odd window with two dates before the center and one after
C7_Witness ==
    Returned("date_range") /\ call.days = 3
        /\ Before(result, call.center) = 2 /\ After(result, call.center) = 1

(***************************************************************************)
(* Claims about the team filter (SpecEvent).                               *)
(***************************************************************************)
\* `key` occurs in `name` as a substring when case is ignored
CiContains(key, name) ==
    \E i \in 0..(Len(name) - Len(key)) :
        \A j \in 1..Len(key) : LowerChar(name[i + j]) = LowerChar(key[j])

OnAllowList(name) == \E k \in DOMAIN TEAM_MATCHERS : CiContains(TEAM_MATCHERS[k], name)

CalledCompetitors == FirstCompetition(call.event).competitors
CalledHome == BySide(CalledCompetitors, "home", CalledCompetitors[1])
CalledAway == BySide(CalledCompetitors, "away", CalledCompetitors[Len(CalledCompetitors)])

\* the name the item shows for a team: its display name, or when that is absent
\* its short display name, or when that is absent too its name
ShownName(c) ==
    IF c.team.displayName # <<>> THEN c.team.displayName
    ELSE IF c.team.shortDisplayName # <<>> THEN c.team.shortDisplayName
    ELSE c.team.name

\* C5 as stated: a scoreboard event yields a feed item only if it has at least
\* two competitors and the home or away team's display name or abbreviation
\* contains, case-insensitively, some string of the team allow-list; an event
\* with fewer than two competitors is dropped.
C5_ItemOnlyIfDisplayNameMatches ==
    Returned("event_to_item") =>
        /\ Len(CalledCompetitors) < 2 => result.r = "none"
        /\ result.r = "item" =>
              /\ Len(CalledCompetitors) >= 2
              /\ \/ OnAllowList(CalledHome.team.displayName)
                 \/ OnAllowList(CalledAway.team.displayName)
                 \/ OnAllowList(CalledHome.team.abbreviation)
                 \/ OnAllowList(CalledAway.team.abbreviation)

\* C5 as amended: a scoreboard event yields a feed item only if it has at least
\* two competitors and the home or away team's shown name (its display name, or
\* when that is absent its short display name, or else its name) or
\* abbreviation contains, case-insensitively, some string of the team
\* allow-list; an event with fewer than two competitors is dropped.
C5_ItemOnlyIfShownNameMatches ==
    Returned("event_to_item") =>
        /\ Len(CalledCompetitors) < 2 => result.r = "none"
        /\ result.r = "item" =>
              /\ Len(CalledCompetitors) >= 2
              /\ \/ OnAllowList(ShownName(CalledHome))
                 \/ OnAllowList(ShownName(CalledAway))
                 \/ OnAllowList(CalledHome.team.abbreviation)
                 \/ OnAllowList(CalledAway.team.abbreviation)

\* C5 witness: an item made for an event that matches by the away team's
\* lower-case display name only
C5_Witness ==
    /\ Returned("event_to_item") /\ result.r = "item"
    /\ CalledHome.team = Bears /\ CalledAway.team = PackersLower

(***************************************************************************)
(* Claims about pick_game_link (SpecLink).                                 *)
(***************************************************************************)
\* the link of the most preferred relation, the earliest in the list among
\* those of that relation; <<>> when no link has a preferred relation
PreferredLinks(links) ==
    LET has(p) == { i \in DOMAIN links : LinkPreference[p] \in links[i].rel }
        ranks == { p \in DOMAIN LinkPreference : has(p) # {} }
    IN  IF ranks = {} THEN <<>>
        ELSE LET best == CHOOSE p \in ranks : \A q \in ranks : p <= q
             IN  << links[CHOOSE i \in has(best) : \A j \in has(best) : i <= j] >>

LinksWithHref(links) == SelectSeq(links, LAMBDA l : l.href # <<>>)

\* the link the claim describes (the `web` field read as a second short link)
ClaimedLink(event) ==
    IF PreferredLinks(event.links) # <<>> /\ PreferredLinks(event.links)[1].href # <<>>
    THEN PreferredLinks(event.links)[1].href
    ELSE IF LinksWithHref(event.links) # <<>> THEN LinksWithHref(event.links)[1].href
    ELSE IF event.shortLink # <<>> THEN event.shortLink
    ELSE IF event.web # <<>> THEN event.web
    ELSE FallbackUrl

\* C9: pick_game_link returns the href of the most preferred relation
\* (boxscore > summary > pbp > recap, whatever its position); when that supplies
\* no href, the first declared link with an href, then the short link, then the
\* generic fallback URL; so the returned link is never empty.
C9_LinkResolvesToNonEmptyUrl ==
    Returned("pick_game_link") =>
        /\ result = ClaimedLink(call.event)
        /\ result # <<>>

(***************************************************************************)
(* Claims about the independence of fetch order (SpecMerge).               *)
(***************************************************************************)
\* C8 as stated: for two runs whose lists of produced items are permutations
\* of each other, the sorted and truncated outputs are identical, item for
\* item and position for position.
C8_OutputIndependentOfAppendOrder ==
    Returned("sort_and_cap") => result[1] = result[2]

NoTwoItemsTie(l) ==
    \A i, j \in DOMAIN l : (i # j /\ l[i] # l[j]) => SortKey(l[i]).sec # SortKey(l[j]).sec

\* C8 as amended: for two runs whose lists of produced items are permutations
\* of each other, the sorted and truncated outputs have the same length and
\* the same publish time at every position, and are identical item for item
\* whenever no two distinct items share a publish time (items that tie keep
\* their append order, which does depend on the order of the fetches).
C8_OutputIndependentUpToTies ==
    Returned("sort_and_cap") =>
        /\ Len(result[1]) = Len(result[2])
        /\ \A i \in DOMAIN result[1] :
              SortKey(result[1][i]).sec = SortKey(result[2][i]).sec
        /\ NoTwoItemsTie(call.first) => result[1] = result[2]

\* C8 witness: two different append orders of three items, none tying, give
\* one output
C8_Witness ==
    /\ Returned("sort_and_cap") /\ Len(call.first) = 3 /\ call.first # call.second
    /\ NoTwoItemsTie(call.first) /\ call.max_items = 2
    /\ Len(result[1]) = 2 /\ result[1] = result[2]

(***************************************************************************)
(* Claims about the serialization (SpecRss).  The reader below is the      *)
(* conformant XML parser of the round trip: what it recovers from the      *)
(* characters between an element's tags.                                   *)
(***************************************************************************)
StartsWith(s, prefix) ==
    Len(s) >= Len(prefix) /\ SubSeq(s, 1, Len(prefix)) = prefix

Drop(s, n) == SubSeq(s, n + 1, Len(s))

\* the predefined entities and the character reference html.escape writes
Entities ==
    { << <<"&", "a", "m", "p", ";">>, "&" >>,
      << <<"&", "l", "t", ";">>, "<" >>,
      << <<"&", "g", "t", ";">>, ">" >>,
      << <<"&", "q", "u", "o", "t", ";">>, "\"" >>,
      << <<"&", "a", "p", "o", "s", ";">>, "'" >>,
      << <<"&", "#", "x", "2", "7", ";">>, "'" >> }

NotWellFormed == [ok |-> FALSE, text |-> <<>>]

Prepend(chars, rest) ==
    IF rest.ok THEN [ok |-> TRUE, text |-> chars \o rest.text] ELSE NotWellFormed

\* the position of the first "]]>" of s, 0 when there is none
CDataEnd(s) ==
    LET ends == { i \in 1..(Len(s) - 2) : SubSeq(s, i, i + 2) = CDataClose }
    IN  IF ends = {} THEN 0 ELSE CHOOSE i \in ends : \A j \in ends : i <= j

RECURSIVE XmlText(_)
\* the text of an element with this content; not well-formed (or not text
\* alone) when a bare "<", a bare "&" or a "]]>" stands in character data
XmlText(s) ==
    IF s = <<>> THEN [ok |-> TRUE, text |-> <<>>]
    ELSE IF StartsWith(s, CDataOpen)
    THEN LET body == Drop(s, Len(CDataOpen))
             e == CDataEnd(body)
         IN  IF e = 0 THEN NotWellFormed
             ELSE Prepend(SubSeq(body, 1, e - 1), XmlText(Drop(body, e + 2)))
    ELSE IF StartsWith(s, CDataClose) \/ Head(s) = "<" THEN NotWellFormed
    ELSE IF Head(s) = "&"
    THEN IF \E e \in Entities : StartsWith(s, e[1])
         THEN LET e == CHOOSE e \in Entities : StartsWith(s, e[1])
              IN  Prepend(<<e[2]>>, XmlText(Drop(s, Len(e[1]))))
         ELSE NotWellFormed
    ELSE Prepend(<<Head(s)>>, XmlText(Tail(s)))

Recovers(content, text) == XmlText(content) = [ok |-> TRUE, text |-> text]

\* C10: serialization round-trips: the document has one <item> per input item,
\* in input order, and the title, link, guid and description given to
\* build_rss, over any characters, are exactly what a conformant XML parser
\* recovers from the <title>, <link>, <guid> and <description> elements.
C10_SerializationRoundTrips ==
    Returned("build_rss") =>
        /\ Len(result.items) = Len(call.items)
        /\ \A i \in DOMAIN call.items :
              /\ Recovers(result.items[i].title, call.items[i].title)
              /\ Recovers(result.items[i].link, call.items[i].link)
              /\ Recovers(result.items[i].guid, call.items[i].guid)
              /\ Recovers(result.items[i].description, call.items[i].description)

=============================================================================
